---- MODULE Spec2Model ----
(***************************************************************************)
(* A model of macocr (src/main.rs): the result assembly of get_ocr_result, *)
(* the command-line driver of main, and the HTTP server (the layers main   *)
(* installs, the Basic-Auth middleware and the upload_file handler).       *)
(*                                                                         *)
(* Numbers.  The f64 values of get_ocr_result are modelled as exact        *)
(* rationals in fixed point: a normalized coordinate is a numerator over   *)
(* Den, a pixel coordinate is a numerator over Den as well.  Rounding of   *)
(* the f64 operations is not modelled.                                     *)
(* Text.  Header values, credentials and file contents are sequences of    *)
(* byte values (0..255); TLA+ strings are used only for tags.              *)
(* Scheduling.  The last part models how the tokio runtime of main runs    *)
(* the connection tasks of several requests on its worker threads.         *)
(***************************************************************************)
EXTENDS Integers, Sequences, FiniteSets, TLC

VARIABLES
    ocrPc,      \* get_ocr_result: "call" before the call, "ret" after it
    ocrIn,      \* what the file system, the decoder and the engine give the call
    ocrOut,     \* the io::Result<OCRResult> the call returned
    srvPc,      \* the server: "boot", "idle", or the stage of the request in flight
    argsAuth,   \* args.auth, the -a/--auth string
    authLayer,  \* the Basic-Auth layer of the app: None or Some([username, password])
    req,        \* the request in flight
    loc,        \* the locals of upload_file for the request in flight
    resp,       \* the response to the request in flight: None until there is one
    log,        \* the stages the request in flight went through
    uploadDir,  \* the files of <temp dir>/macocr_uploads, in order of creation
    dirAtArrival, \* uploadDir as it was when the request in flight arrived
    cliArgs,    \* the command line without -s: [ocr, files]
    cliDone,    \* the input files main has gone through, with what happened to each
    cliFs,      \* the files written by export_text_file: absolute path -> contents
    cliStdout,  \* what main printed
    workerThreads, \* the worker threads of the tokio runtime of #[tokio::main]
    tasks,      \* the connection tasks axum::serve spawned: slot -> [state, at, request]
    workers     \* what each worker thread polls: a task slot, or 0 when it is parked

ocrVars == <<ocrPc, ocrIn, ocrOut>>
srvVars == <<srvPc, argsAuth, authLayer, req, loc, resp, log, uploadDir, dirAtArrival>>
cliVars == <<cliArgs, cliDone, cliFs, cliStdout>>
rtVars == <<workerThreads, tasks, workers>>
vars == <<ocrVars, srvVars, cliVars, rtVars>>

None == [some |-> FALSE]
Some(v) == [some |-> TRUE, v |-> v]

SeqsUpTo(S, n) == UNION {[1 .. k -> S] : k \in 0 .. n}

(***************************************************************************)
(* get_ocr_result                                                          *)
(***************************************************************************)

\* Denominator of the fixed-point coordinates.
Den == 2

\* Longest list of observations the engine returns in one call.
MaxObs == 2

\* f64::INFINITY, f64::NEG_INFINITY and the finite values.
F64Infinity == [fin |-> FALSE, v |-> 1]
F64NegInfinity == [fin |-> FALSE, v |-> -1]
Fin(v) == [fin |-> TRUE, v |-> v]

\* f64::min and f64::max on those values.
F64Min(a, b) ==
    IF ~a.fin /\ ~b.fin THEN (IF a.v < b.v THEN a ELSE b)
    ELSE IF ~a.fin THEN (IF a.v > 0 THEN b ELSE a)
    ELSE IF ~b.fin THEN (IF b.v > 0 THEN a ELSE b)
    ELSE IF b.v < a.v THEN b ELSE a

F64Max(a, b) ==
    IF ~a.fin /\ ~b.fin THEN (IF a.v > b.v THEN a ELSE b)
    ELSE IF ~a.fin THEN (IF a.v < 0 THEN b ELSE a)
    ELSE IF ~b.fin THEN (IF b.v < 0 THEN a ELSE b)
    ELSE IF b.v > a.v THEN b ELSE a

\* Iterator::fold(init, f64::min) and fold(init, f64::max) over a sequence.
RECURSIVE FoldMin(_, _)
FoldMin(acc, s) ==
    IF s = <<>> THEN acc ELSE FoldMin(F64Min(acc, Head(s)), Tail(s))

RECURSIVE FoldMax(_, _)
FoldMax(acc, s) ==
    IF s = <<>> THEN acc ELSE FoldMax(F64Max(acc, Head(s)), Tail(s))

\* The four CGPoints of lines 255-260, in the order top-left, top-right,
\* bottom-right, bottom-left: x = nx * width, y = (1.0 - ny) * height.
PixelCorners(obs, width, height) ==
    [i \in 1 .. 4 |->
        [x |-> obs.corners[i][1] * width,
         y |-> (Den - obs.corners[i][2]) * height]]

\* Mutation of OCRBoxOf: the y axis is not flipped.
OCRBoxOfNoFlip(obs, width, height) ==
    LET xs == [i \in 1 .. 4 |-> Fin(obs.corners[i][1] * width)]
        ys == [i \in 1 .. 4 |-> Fin(obs.corners[i][2] * height)]
        min_x == FoldMin(F64Infinity, xs)
        max_x == FoldMax(F64NegInfinity, xs)
        min_y == FoldMin(F64Infinity, ys)
        max_y == FoldMax(F64NegInfinity, ys)
    IN  [text |-> obs.candidate.v,
         x |-> min_x.v, y |-> min_y.v,
         w |-> max_x.v - min_x.v, h |-> max_y.v - min_y.v]

\* Mutation of OCRBoxOf: the extent is the maximum itself, not the maximum
\* minus the minimum.
OCRBoxOfExtentFromOrigin(obs, width, height) ==
    LET corners == PixelCorners(obs, width, height)
        xs == [i \in 1 .. 4 |-> Fin(corners[i].x)]
        ys == [i \in 1 .. 4 |-> Fin(corners[i].y)]
        min_x == FoldMin(F64Infinity, xs)
        max_x == FoldMax(F64NegInfinity, xs)
        min_y == FoldMin(F64Infinity, ys)
        max_y == FoldMax(F64NegInfinity, ys)
    IN  [text |-> obs.candidate.v, x |-> min_x.v, y |-> min_y.v,
         w |-> max_x.v, h |-> max_y.v]

\* The OCRBoxItem pushed for one observation that has a top candidate.
OCRBoxOf(obs, width, height) ==
    LET corners == PixelCorners(obs, width, height)
        xs == [i \in 1 .. 4 |-> Fin(corners[i].x)]
        ys == [i \in 1 .. 4 |-> Fin(corners[i].y)]
        min_x == FoldMin(F64Infinity, xs)
        max_x == FoldMax(F64NegInfinity, xs)
        min_y == FoldMin(F64Infinity, ys)
        max_y == FoldMax(F64NegInfinity, ys)
        rect_x == min_x.v
        rect_y == min_y.v
        rect_w == max_x.v - min_x.v
        rect_h == max_y.v - min_y.v
    IN  [text |-> obs.candidate.v, x |-> rect_x, y |-> rect_y,
         w |-> rect_w, h |-> rect_h]

\* The loop over the observations: an observation without a top candidate
\* adds nothing, the others add their text line and their box, in order.
RECURSIVE OcrLoop(_, _, _, _, _)
OcrLoop(observations, width, height, items, result) ==
    IF observations = <<>> THEN [items |-> items, result |-> result]
    ELSE LET observation == Head(observations)
         IN  IF observation.candidate.some
             THEN OcrLoop(Tail(observations), width, height,
                          Append(items, OCRBoxOf(observation, width, height)),
                          Append(result, observation.candidate.v))
             ELSE OcrLoop(Tail(observations), width, height, items, result)

\* get_ocr_result(path).  in.readOk: fs::read(path) succeeds; in.dims: what
\* image::open(path) gives (None when it fails); in.results: request.results()
\* after performRequests_error, whose own error is dropped.  The text is kept
\* as the sequence of its lines, each of which the code ends with "\n".
get_ocr_result(in) ==
    IF ~in.readOk THEN [ok |-> FALSE]
    ELSE LET width == IF in.dims.some THEN in.dims.v[1] ELSE 0
             height == IF in.dims.some THEN in.dims.v[2] ELSE 0
             loop == IF in.results.some
                     THEN OcrLoop(in.results.v, width, height, <<>>, <<>>)
                     ELSE [items |-> <<>>, result |-> <<>>]
         IN  [ok |-> TRUE, text |-> loop.result, image_width |-> width,
              image_height |-> height, boxes |-> loop.items]

\* Corner points the engine may report: the grid of the unit square, and
\* points outside it.
UnitCorners == (0 .. Den) \X (0 .. Den)
OutsideCorners == {<<-1, 0>>, <<Den + 1, Den>>, <<1, Den + 1>>}
Corners == UnitCorners \cup OutsideCorners

\* The corners {(0,0),(1,0),(1,1),(0,1)} as top-left .. bottom-left.
SquareCorners == <<<<0, 0>>, <<Den, 0>>, <<Den, Den>>, <<0, Den>>>>

\* A few quadrilaterals for the longer lists: the unit square, its upper left
\* quarter, and one with a corner outside the unit square.
SampleCorners ==
    {SquareCorners,
     <<<<0, Den>>, <<1, Den>>, <<1, 1>>, <<0, 1>>>>,
     <<<<1, Den + 1>>, <<Den, 1>>, <<1, 0>>, <<0, 1>>>>}

\* Those, with and without a top candidate.
SampleObservations ==
    {[candidate |-> t, corners |-> c] :
        t \in {None, Some("A"), Some("B")}, c \in SampleCorners}

SampleResults ==
    {None} \cup {Some(s) : s \in SeqsUpTo(SampleObservations, MaxObs)}

\* What image::open gives: a failure, or the dimensions.
ImageDims == {None, Some(<<100, 200>>), Some(<<3, 2>>)}

\* The inputs of a call: the read fails; or a list of sample observations on
\* any image; or one observation over any four corners on a decoded image.
InitOcr ==
    /\ ocrPc = "call"
    /\ ocrOut = [ok |-> FALSE]
    /\ srvPc = "off"
    /\ argsAuth = <<>>
    /\ authLayer = None
    /\ req = None
    /\ loc = None
    /\ resp = None
    /\ log = {}
    /\ uploadDir = <<>>
    /\ dirAtArrival = <<>>
    /\ cliArgs = [ocr |-> FALSE, files |-> <<>>]
    /\ cliDone = <<>>
    /\ cliFs = <<>>
    /\ cliStdout = <<>>
    /\ workerThreads = 0
    /\ tasks = <<>>
    /\ workers = <<>>
    /\ \/ ocrIn = [readOk |-> FALSE, dims |-> None, results |-> None]
       \/ \E d \in ImageDims, r \in SampleResults :
             ocrIn = [readOk |-> TRUE, dims |-> d, results |-> r]
       \/ \E d \in ImageDims \ {None}, c \in [1 .. 4 -> Corners] :
             ocrIn = [readOk |-> TRUE, dims |-> d,
                      results |-> Some(<<[candidate |-> Some("A"), corners |-> c]>>)]

GetOcrResult ==
    /\ ocrPc = "call"
    /\ ocrPc' = "ret"
    /\ ocrOut' = get_ocr_result(ocrIn)
    /\ UNCHANGED <<ocrIn, srvVars, cliVars, rtVars>>

NextOcr == GetOcrResult

SpecOcr == InitOcr /\ [][NextOcr]_vars

(***************************************************************************)
(* Text: str, String, HeaderValue, base64, regex                           *)
(***************************************************************************)

\* The byte ':'.
Colon == 58

\* str::starts_with.
StartsWith(s, prefix) ==
    Len(prefix) <= Len(s) /\ SubSeq(s, 1, Len(prefix)) = prefix

\* str::contains: the needle is searched at each position in turn.
RECURSIVE Contains(_, _)
Contains(s, needle) ==
    IF Len(s) < Len(needle) THEN FALSE
    ELSE IF StartsWith(s, needle) THEN TRUE
    ELSE Contains(Tail(s), needle)

\* The index of the first b in s at or after i, 0 when there is none.
RECURSIVE FirstIndex(_, _, _)
FirstIndex(s, b, i) ==
    IF i > Len(s) THEN 0
    ELSE IF s[i] = b THEN i
    ELSE FirstIndex(s, b, i + 1)

\* The index of the last b in s at or before i, 0 when there is none.
RECURSIVE LastIndex(_, _, _)
LastIndex(s, b, i) ==
    IF i < 1 THEN 0
    ELSE IF s[i] = b THEN i
    ELSE LastIndex(s, b, i - 1)

\* Mutation of SplitOnce: the split is at the last ':'.
SplitOnceLast(s) ==
    LET i == LastIndex(s, Colon, Len(s))
    IN  IF i = 0 THEN None
        ELSE Some(<<SubSeq(s, 1, i - 1), SubSeq(s, i + 1, Len(s))>>)

\* str::split_once(':'): the text before and after the first ':'.
SplitOnce(s) ==
    LET i == FirstIndex(s, Colon, 1)
    IN  IF i = 0 THEN None
        ELSE Some(<<SubSeq(s, 1, i - 1), SubSeq(s, i + 1, Len(s))>>)

\* HeaderValue::to_str: Ok only if every byte is visible ASCII or a tab.
HeaderToStr(value) ==
    IF \A i \in 1 .. Len(value) :
          (value[i] >= 32 /\ value[i] < 127) \/ value[i] = 9
    THEN Some(value) ELSE None

\* A UTF-8 continuation byte.
IsCont(b) == b >= 128 /\ b <= 191

\* String::from_utf8: whether the bytes are well-formed UTF-8.
RECURSIVE Utf8Valid(_)
Utf8Valid(b) ==
    IF b = <<>> THEN TRUE
    ELSE LET c == Head(b)
             n == Len(b)
         IN  IF c < 128 THEN Utf8Valid(Tail(b))
             ELSE IF c >= 194 /\ c <= 223
             THEN /\ n >= 2
                  /\ IsCont(b[2])
                  /\ Utf8Valid(SubSeq(b, 3, n))
             ELSE IF c >= 224 /\ c <= 239
             THEN /\ n >= 3
                  /\ IsCont(b[2]) /\ IsCont(b[3])
                  /\ (c = 224 => b[2] >= 160)
                  /\ (c = 237 => b[2] <= 159)
                  /\ Utf8Valid(SubSeq(b, 4, n))
             ELSE IF c >= 240 /\ c <= 244
             THEN /\ n >= 4
                  /\ IsCont(b[2]) /\ IsCont(b[3]) /\ IsCont(b[4])
                  /\ (c = 240 => b[2] >= 144)
                  /\ (c = 244 => b[2] <= 143)
                  /\ Utf8Valid(SubSeq(b, 5, n))
             ELSE FALSE

\* The value of a character of the standard base64 alphabet, -1 for any
\* other byte ('=' included).
B64Value(c) ==
    IF c >= 65 /\ c <= 90 THEN c - 65
    ELSE IF c >= 97 /\ c <= 122 THEN c - 71
    ELSE IF c >= 48 /\ c <= 57 THEN c + 4
    ELSE IF c = 43 THEN 62
    ELSE IF c = 47 THEN 63
    ELSE -1

\* The character of a 6-bit value.
B64Char(v) ==
    IF v < 26 THEN v + 65
    ELSE IF v < 52 THEN v + 71
    ELSE IF v < 62 THEN v - 4
    ELSE IF v = 62 THEN 43
    ELSE 47

\* general_purpose::STANDARD.encode: what a client sends for the bytes b.
RECURSIVE B64Encode(_)
B64Encode(b) ==
    IF b = <<>> THEN <<>>
    ELSE IF Len(b) = 1
    THEN <<B64Char(b[1] \div 4), B64Char((b[1] % 4) * 16), 61, 61>>
    ELSE IF Len(b) = 2
    THEN <<B64Char(b[1] \div 4), B64Char((b[1] % 4) * 16 + b[2] \div 16),
           B64Char((b[2] % 16) * 4), 61>>
    ELSE <<B64Char(b[1] \div 4), B64Char((b[1] % 4) * 16 + b[2] \div 16),
           B64Char((b[2] % 16) * 4 + b[3] \div 64), B64Char(b[3] % 64)>>
         \o B64Encode(SubSeq(b, 4, Len(b)))

\* general_purpose::STANDARD.decode: None for an Err.  The engine wants the
\* standard alphabet, canonical '=' padding to a multiple of four, and zero
\* trailing bits in the last symbol.
RECURSIVE B64Decode(_)
B64Decode(s) ==
    IF Len(s) % 4 # 0 THEN None
    ELSE IF s = <<>> THEN Some(<<>>)
    ELSE LET v == [i \in 1 .. 4 |-> B64Value(s[i])]
             rest == SubSeq(s, 5, Len(s))
         IN  IF rest # <<>>
             THEN IF \E i \in 1 .. 4 : v[i] < 0 THEN None
                  ELSE LET r == B64Decode(rest)
                       IN  IF r.some
                           THEN Some(<<v[1] * 4 + v[2] \div 16,
                                       (v[2] % 16) * 16 + v[3] \div 4,
                                       (v[3] % 4) * 64 + v[4]>> \o r.v)
                           ELSE None
             ELSE IF s[3] = 61 /\ s[4] = 61
             THEN IF v[1] >= 0 /\ v[2] >= 0 /\ v[2] % 16 = 0
                  THEN Some(<<v[1] * 4 + v[2] \div 16>>)
                  ELSE None
             ELSE IF s[4] = 61
             THEN IF v[1] >= 0 /\ v[2] >= 0 /\ v[3] >= 0 /\ v[3] % 4 = 0
                  THEN Some(<<v[1] * 4 + v[2] \div 16,
                              (v[2] % 16) * 16 + v[3] \div 4>>)
                  ELSE None
             ELSE IF \E i \in 1 .. 4 : v[i] < 0 THEN None
             ELSE Some(<<v[1] * 4 + v[2] \div 16,
                         (v[2] % 16) * 16 + v[3] \div 4,
                         (v[3] % 4) * 64 + v[4]>>)

\* Regex ^[^:]+:[^:]+$ run over the input: state 0 at the start, 1 inside the
\* first half, 2 right after the ':', 3 inside the second half, 4 dead.
RECURSIVE AuthRegexRun(_, _)
AuthRegexRun(state, input) ==
    IF input = <<>> THEN state
    ELSE LET c == Head(input)
             next == IF state = 0 THEN (IF c # Colon THEN 1 ELSE 4)
                     ELSE IF state = 1 THEN (IF c # Colon THEN 1 ELSE 2)
                     ELSE IF state = 2 THEN (IF c # Colon THEN 3 ELSE 4)
                     ELSE IF state = 3 THEN (IF c # Colon THEN 3 ELSE 4)
                     ELSE 4
         IN  AuthRegexRun(next, Tail(input))

\* Mutation of is_valid_auth_format: the regex without its anchors, which
\* matches anywhere in the input.
is_valid_auth_format_unanchored(input) ==
    \E i \in 1 .. Len(input) :
        /\ input[i] = Colon
        /\ i > 1 /\ input[i - 1] # Colon
        /\ i < Len(input) /\ input[i + 1] # Colon

\* is_valid_auth_format.
is_valid_auth_format(input) == AuthRegexRun(0, input) = 3

(***************************************************************************)
(* The server: main (startup and layers), the Basic-Auth middleware,       *)
(* show_form and upload_file                                               *)
(***************************************************************************)

\* Longest generated -a/--auth string.
MaxAuthLen == 3

\* Requests are accepted while the upload directory holds fewer files.
MaxFiles == 1

\* RequestBodyLimitLayer::new(100 * 1024 * 1024).
BodyLimitBytes == 100 * 1024 * 1024

\* "alice:secret", "alice", "alice:se:cret", "alice:wrong", "bob:secret",
\* "alicesecret" and "a:a" as bytes; BadUtf8Cred is not UTF-8.
AliceSecret == <<97, 108, 105, 99, 101, 58, 115, 101, 99, 114, 101, 116>>
AliceOnly == <<97, 108, 105, 99, 101>>
AliceSeCret == <<97, 108, 105, 99, 101, 58, 115, 101, 58, 99, 114, 101, 116>>
AliceWrong == <<97, 108, 105, 99, 101, 58, 119, 114, 111, 110, 103>>
BobSecret == <<98, 111, 98, 58, 115, 101, 99, 114, 101, 116>>
AliceNoColon == <<97, 108, 105, 99, 101, 115, 101, 99, 114, 101, 116>>
ShortCred == <<97, 58, 97>>
BadUtf8Cred == <<255, 58, 97>>

\* The -a/--auth strings: the default "", the named ones, and every string
\* over 'a' and ':' up to MaxAuthLen.
AuthArgs ==
    {<<>>, AliceSecret, AliceOnly, AliceSeCret}
        \cup SeqsUpTo({97, Colon}, MaxAuthLen)

\* "Basic ", "Bearer " and "basic ".
BasicPrefix == <<66, 97, 115, 105, 99, 32>>
BearerPrefix == <<66, 101, 97, 114, 101, 114, 32>>
LowerBasicPrefix == <<98, 97, 115, 105, 99, 32>>

\* The Authorization header of a request: absent, or its bytes.
AuthorizationValues ==
    {None}
    \cup {Some(BasicPrefix \o B64Encode(c)) :
            c \in {AliceSecret, AliceWrong, BobSecret, AliceNoColon,
                   ShortCred, BadUtf8Cred}}
    \cup {Some(BearerPrefix \o B64Encode(AliceSecret)),
          Some(LowerBasicPrefix \o B64Encode(ShortCred)),
          Some(BasicPrefix \o <<89, 81>>),
          Some(BasicPrefix \o B64Encode(AliceSecret) \o <<200>>)}

\* "application/json", "text/html" and "text/html, application/json".
ApplicationJson ==
    <<97, 112, 112, 108, 105, 99, 97, 116, 105, 111, 110, 47, 106, 115, 111, 110>>
TextHtml == <<116, 101, 120, 116, 47, 104, 116, 109, 108>>
HtmlThenJson == TextHtml \o <<44, 32>> \o ApplicationJson

\* The Accept header of a request: absent, or its bytes (the last one holds a
\* byte that is not visible ASCII).
AcceptValues ==
    {None, Some(ApplicationJson), Some(TextHtml), Some(HtmlThenJson),
     Some(ApplicationJson \o <<200>>)}

\* The body of a request: whether it is sent chunked (no Content-Length) and
\* how many bytes it has.
BodyValues ==
    {[chunked |-> FALSE, bodySize |-> 2048],
     [chunked |-> FALSE, bodySize |-> BodyLimitBytes],
     [chunked |-> FALSE, bodySize |-> BodyLimitBytes + 1],
     [chunked |-> TRUE, bodySize |-> 2048],
     [chunked |-> TRUE, bodySize |-> BodyLimitBytes + 1]}

\* The Content-Length header of a request.
ContentLength(r) == IF r.body.chunked THEN None ELSE Some(r.body.bodySize)

\* The file names a multipart field may carry: none, or "a.png".
FileNames == {None, Some(<<97, 46, 112, 110, 103>>)}

\* "unnamed".
Unnamed == <<117, 110, 110, 97, 109, 101, 100>>

\* The first bytes of a PNG and of a JPEG file.
PngMagic == <<137, 80, 78, 71>>
JpegMagic == <<255, 216, 255>>

\* The payloads of a field: empty, the first bytes of a JPEG, the text "hi".
Payloads == {<<>>, JpegMagic, <<104, 105>>}

\* infer::is_image, for the PNG and JPEG matchers.
InferIsImage(data) ==
    \/ Len(data) > 2 /\ SubSeq(data, 1, 3) = JpegMagic
    \/ Len(data) > 3 /\ SubSeq(data, 1, 4) = PngMagic

\* Mutation of is_image: every file that can be read passes.
is_image_always(readOk, data) == readOk

\* is_image(path): readOk is whether fs::read(path) succeeds, data what it reads.
is_image(readOk, data) == IF readOk THEN InferIsImage(data) ELSE FALSE

\* Path::extension of a file name: the text after the last '.', unless there
\* is no '.' or the only '.' starts the name.
PathExtension(name) ==
    LET i == LastIndex(name, 46, Len(name))
    IN  IF i <= 1 THEN None ELSE Some(SubSeq(name, i + 1, Len(name)))

\* main, lines 176-191: the layer added on top of the app, or none.  "panic"
\* is the unwrap of split_once on a string without ':'.
AuthLayerOf(auth) ==
    IF auth # <<>> /\ is_valid_auth_format(auth)
    THEN LET halves == SplitOnce(auth)
         IN  IF halves.some
             THEN Some([username |-> halves.v[1], password |-> halves.v[2]])
             ELSE [some |-> FALSE, panic |-> TRUE]
    ELSE None

\* Mutation of AuthPasses: only the user name is compared.
AuthPassesUserOnly(authorization, username, password) ==
    /\ authorization.some
    /\ HeaderToStr(authorization.v).some
    /\ StartsWith(authorization.v, BasicPrefix)
    /\ LET encoded == SubSeq(authorization.v, 7, Len(authorization.v))
           decoded == B64Decode(encoded)
       IN  /\ decoded.some
           /\ Utf8Valid(decoded.v)
           /\ LET parts == SplitOnce(decoded.v)
              IN  parts.some /\ parts.v[1] = username

\* basic_auth_middleware_with_params: whether the request is passed to
\* next.run.
AuthPasses(authorization, username, password) ==
    /\ authorization.some
    /\ HeaderToStr(authorization.v).some
    /\ StartsWith(authorization.v, BasicPrefix)
    /\ LET encoded == SubSeq(authorization.v, 7, Len(authorization.v))
           decoded == B64Decode(encoded)
       IN  /\ decoded.some
           /\ Utf8Valid(decoded.v)
           /\ LET parts == SplitOnce(decoded.v)
              IN  /\ parts.some
                  /\ parts.v[1] = username
                  /\ parts.v[2] = password

\* The 401 response of the middleware.
UnauthorizedResponse ==
    [kind |-> "text", status |-> 401,
     www_authenticate |-> [scheme |-> "Basic", realm |-> "MacOCR Server"],
     body |-> "Authentication failed: A valid username and password are required."]

\* The 413 response of RequestBodyLimitLayer.
PayloadTooLargeResponse ==
    [kind |-> "text", status |-> 413, body |-> "length limit exceeded"]

\* The 400 response of the Multipart extractor.
InvalidBoundaryResponse ==
    [kind |-> "text", status |-> 400,
     body |-> "Invalid boundary for multipart/form-data request"]

\* Json(UploadResponse {..}).into_response().
JsonResponse(success, message, ocr_result, image_width, image_height, ocr_boxes) ==
    [kind |-> "json", status |-> 200, success |-> success, message |-> message,
     ocr_result |-> ocr_result, image_width |-> image_width,
     image_height |-> image_height, ocr_boxes |-> ocr_boxes]

\* Html(..).into_response(): the <title>, the <h1> (without the cross mark
\* the error headings start with) and, on the result page, the <pre> with the
\* transcript (its escaping of & < > is not modelled).
HtmlResponse(title, h1, pre) ==
    [kind |-> "html", status |-> 200, title |-> title, h1 |-> h1, pre |-> pre]

\* show_form.
show_form == HtmlResponse("macocr", "macocr v{VERSION}", None)

\* Mutation of IsApiRequest: an unreadable header is read lossily.
IsApiRequestLossy(accept) ==
    IF accept.some THEN Contains(accept.v, ApplicationJson) ELSE FALSE

\* upload_file, lines 324-327: is_api_request.
IsApiRequest(accept) ==
    IF accept.some
    THEN LET text == HeaderToStr(accept.v)
         IN  IF text.some THEN Contains(text.v, ApplicationJson) ELSE FALSE
    ELSE FALSE

\* The error exits of upload_file: both shapes of one message.
ErrorResponse(is_api_request, message, h1) ==
    IF is_api_request
    THEN JsonResponse(FALSE, message, <<>>, 0, 0, <<>>)
    ELSE HtmlResponse("Error", h1, None)

\* Mutation of ResultResponse: the JSON body always reports success.
ResultResponseAlwaysSuccess(l) ==
    IF l.is_api_request
    THEN JsonResponse(TRUE, l.message, l.ocr_result_text, l.image_width,
                      l.image_height, l.ocr_boxes)
    ELSE HtmlResponse("OCR Result", l.title, Some(l.ocr_result_text))

\* upload_file, lines 377-404: the response after the file was written.
ResultResponse(l) ==
    IF l.is_api_request
    THEN JsonResponse(l.success, l.message, l.ocr_result_text, l.image_width,
                      l.image_height, l.ocr_boxes)
    ELSE HtmlResponse("OCR Result", l.title, Some(l.ocr_result_text))

InitServer ==
    /\ ocrPc = "off"
    /\ ocrIn = None
    /\ ocrOut = None
    /\ srvPc = "boot"
    /\ argsAuth \in AuthArgs
    /\ authLayer = None
    /\ req = None
    /\ loc = None
    /\ resp = None
    /\ log = {}
    /\ uploadDir = <<>>
    /\ dirAtArrival = <<>>
    /\ cliArgs = [ocr |-> FALSE, files |-> <<>>]
    /\ cliDone = <<>>
    /\ cliFs = <<>>
    /\ cliStdout = <<>>
    /\ workerThreads = 0
    /\ tasks = <<>>
    /\ workers = <<>>

\* main, lines 137-207: the app is built and served.
StartServer ==
    /\ srvPc = "boot"
    /\ LET layer == AuthLayerOf(argsAuth)
       IN  IF layer.some \/ layer = None
           THEN srvPc' = "idle" /\ authLayer' = layer
           ELSE srvPc' = "crashed" /\ authLayer' = None
    /\ UNCHANGED <<ocrVars, cliVars, rtVars, argsAuth, req, loc, resp, log, uploadDir, dirAtArrival>>

\* The requests: GET / with any Authorization header and body; POST /upload
\* with any Authorization header and body and a JSON Accept header; POST
\* /upload with any Accept header, a small body, and no, the right or a wrong
\* Authorization header.  multipart is whether the Content-Type is
\* multipart/form-data with a boundary.
Requests ==
    {[route |-> "GET /", authorization |-> a, accept |-> None, body |-> b,
      multipart |-> FALSE] : a \in AuthorizationValues, b \in BodyValues}
    \cup {[route |-> "POST /upload", authorization |-> a,
           accept |-> Some(ApplicationJson), body |-> b, multipart |-> TRUE] :
            a \in AuthorizationValues, b \in BodyValues}
    \cup {[route |-> "POST /upload", authorization |-> a, accept |-> c,
           body |-> [chunked |-> FALSE, bodySize |-> 2048], multipart |-> m] :
            a \in {None, Some(BasicPrefix \o B64Encode(AliceSecret)),
                   Some(BasicPrefix \o B64Encode(ShortCred))},
            c \in AcceptValues, m \in BOOLEAN}

\* A request arrives; the outermost layer is the auth middleware when it is
\* installed (it is added last), then the body limit, then the routes.
Arrive ==
    /\ srvPc = "idle"
    /\ Len(uploadDir) < MaxFiles
    /\ \E r \in Requests : req' = Some(r)
    /\ srvPc' = IF authLayer.some THEN "auth" ELSE "limit"
    /\ loc' = None
    /\ resp' = None
    /\ log' = {}
    /\ dirAtArrival' = uploadDir
    /\ UNCHANGED <<ocrVars, cliVars, rtVars, argsAuth, authLayer, uploadDir>>

\* basic_auth_middleware_with_params.
AuthMiddleware ==
    /\ srvPc = "auth"
    /\ IF AuthPasses(req.v.authorization, authLayer.v.username, authLayer.v.password)
       THEN /\ srvPc' = "limit"
            /\ log' = log \cup {"auth", "next.run"}
            /\ resp' = resp
       ELSE /\ srvPc' = "done"
            /\ log' = log \cup {"auth"}
            /\ resp' = Some(UnauthorizedResponse)
    /\ UNCHANGED <<ocrVars, cliVars, rtVars, argsAuth, authLayer, req, loc, uploadDir, dirAtArrival>>

\* Mutation of ExceedsLimit: no limit is enforced.
ExceedsLimitDisabled(content_length) == FALSE

\* RequestBodyLimitLayer: whether the declared length is over the limit.
ExceedsLimit(content_length) ==
    content_length.some /\ content_length.v > BodyLimitBytes

\* RequestBodyLimitLayer: a Content-Length above the limit is answered 413;
\* otherwise the body is wrapped to fail once more than the limit is read.
BodyLimit ==
    /\ srvPc = "limit"
    /\ IF ExceedsLimit(ContentLength(req.v))
       THEN /\ srvPc' = "done"
            /\ resp' = Some(PayloadTooLargeResponse)
       ELSE /\ srvPc' = "route"
            /\ resp' = resp
    /\ log' = log \cup {"limit"}
    /\ UNCHANGED <<ocrVars, cliVars, rtVars, argsAuth, authLayer, req, loc, uploadDir, dirAtArrival>>

\* route("/", get(show_form)).
RouteShowForm ==
    /\ srvPc = "route"
    /\ req.v.route = "GET /"
    /\ srvPc' = "done"
    /\ resp' = Some(show_form)
    /\ log' = log \cup {"show_form"}
    /\ UNCHANGED <<ocrVars, cliVars, rtVars, argsAuth, authLayer, req, loc, uploadDir, dirAtArrival>>

\* route("/upload", post(upload_file)): the Multipart extractor rejects a
\* request that is not multipart/form-data with a boundary; otherwise
\* upload_file starts and computes is_api_request.
RouteUpload ==
    /\ srvPc = "route"
    /\ req.v.route = "POST /upload"
    /\ IF req.v.multipart
       THEN /\ srvPc' = "next_field"
            /\ resp' = resp
            /\ log' = log \cup {"upload_file"}
            /\ loc' = Some([is_api_request |-> IsApiRequest(req.v.accept),
                            original_name |-> <<>>, data |-> <<>>,
                            save_path |-> None, classified |-> None,
                            ocr |-> None, success |-> FALSE,
                            title |-> "The file type is not an image",
                            message |-> "The file type is not an image",
                            ocr_result_text |-> <<>>, image_width |-> 0,
                            image_height |-> 0, ocr_boxes |-> <<>>])
       ELSE /\ srvPc' = "done"
            /\ resp' = Some(InvalidBoundaryResponse)
            /\ log' = log
            /\ loc' = loc
    /\ UNCHANGED <<ocrVars, cliVars, rtVars, argsAuth, authLayer, req, uploadDir, dirAtArrival>>

\* upload_file, line 330: multipart.next_field().await.unwrap().  The body is
\* read here for the first time: it is malformed (Err, and the unwrap
\* panics), or has no field, or has a first field.
NextField ==
    /\ srvPc = "next_field"
    /\ log' = log \cup {"next_field"}
    /\ \/ /\ srvPc' = "panicked"
          /\ UNCHANGED <<loc, resp>>
       \/ /\ srvPc' = "done"
          /\ resp' = Some(ErrorResponse(loc.v.is_api_request, "No file received",
                                        "No file received"))
          /\ UNCHANGED loc
       \/ \E file_name \in FileNames :
          /\ srvPc' = "bytes"
          /\ loc' = Some([loc.v EXCEPT !.original_name =
                             IF file_name.some THEN file_name.v ELSE Unnamed])
          /\ UNCHANGED resp
    /\ UNCHANGED <<ocrVars, cliVars, rtVars, argsAuth, authLayer, req, uploadDir, dirAtArrival>>

\* upload_file, line 332: field.bytes().await.unwrap().  The read fails (the
\* stream breaks, or more than the limit was read) and the unwrap panics, or
\* gives the payload.
FieldBytes ==
    /\ srvPc = "bytes"
    /\ log' = log \cup {"bytes"}
    /\ \/ /\ srvPc' = "panicked"
          /\ UNCHANGED loc
       \/ \E data \in Payloads :
          /\ srvPc' = "create"
          /\ loc' = Some([loc.v EXCEPT !.data = data])
    /\ UNCHANGED <<ocrVars, cliVars, rtVars, argsAuth, authLayer, req, resp, uploadDir, dirAtArrival>>

\* upload_file, lines 335-351 and 432-455: the random name keeps the
\* extension of the original name; File::create makes the file or fails.
\* The uuid is modelled as the number of the file.
CreateFile ==
    /\ srvPc = "create"
    /\ log' = log \cup {"create"}
    /\ LET ext == PathExtension(loc.v.original_name)
           file_extension == IF ext.some THEN ext.v ELSE <<>>
           random_name == [uuid |-> Len(uploadDir) + 1, ext |-> file_extension]
       IN  \/ /\ srvPc' = "write"
              /\ uploadDir' = Append(uploadDir, [name |-> random_name, content |-> <<>>])
              /\ loc' = Some([loc.v EXCEPT !.save_path = Some(Len(uploadDir) + 1)])
              /\ UNCHANGED resp
           \/ /\ srvPc' = "done"
              /\ resp' = Some(ErrorResponse(loc.v.is_api_request,
                                            "Unable to create file",
                                            "Unable to create file."))
              /\ UNCHANGED <<loc, uploadDir>>
    /\ UNCHANGED <<ocrVars, cliVars, rtVars, argsAuth, authLayer, req, dirAtArrival>>

\* upload_file, lines 353 and 406-429: file.write_all(&data) writes the
\* payload, or fails having written less than all of it.
WriteAll ==
    /\ srvPc = "write"
    /\ log' = log \cup {"write"}
    /\ \/ /\ srvPc' = "classify"
          /\ uploadDir' = [uploadDir EXCEPT ![loc.v.save_path.v].content = loc.v.data]
          /\ UNCHANGED resp
       \/ \E n \in 0 .. Len(loc.v.data) - 1 :
          /\ srvPc' = "done"
          /\ uploadDir' = [uploadDir EXCEPT ![loc.v.save_path.v].content =
                              SubSeq(loc.v.data, 1, n)]
          /\ resp' = Some(ErrorResponse(loc.v.is_api_request,
                                        "Failed to write file",
                                        "Failed to write file."))
    /\ UNCHANGED <<ocrVars, cliVars, rtVars, argsAuth, authLayer, req, loc, dirAtArrival>>

\* upload_file, lines 355-364 and 377-404: is_image on the saved file; a file
\* that is not an image is answered at once.
Classify ==
    /\ srvPc = "classify"
    /\ log' = log \cup {"is_image"}
    /\ \E readOk \in BOOLEAN :
          LET image == is_image(readOk, uploadDir[loc.v.save_path.v].content)
              l == [loc.v EXCEPT !.classified = Some(image)]
          IN  /\ loc' = Some(l)
              /\ IF image
                 THEN srvPc' = "recognize" /\ resp' = resp
                 ELSE srvPc' = "done" /\ resp' = Some(ResultResponse(l))
    /\ UNCHANGED <<ocrVars, cliVars, rtVars, argsAuth, authLayer, req, uploadDir, dirAtArrival>>

\* What get_ocr_result meets when upload_file calls it.
UploadOcrInputs ==
    {[readOk |-> FALSE, dims |-> None, results |-> None]}
    \cup {[readOk |-> TRUE, dims |-> d, results |-> r] :
            d \in {None, Some(<<100, 200>>)},
            r \in {None, Some(<<[candidate |-> Some("A"), corners |-> SquareCorners]>>)}}

\* upload_file, lines 365-404: get_ocr_result on the saved file, then the
\* response.
Recognize ==
    /\ srvPc = "recognize"
    /\ log' = log \cup {"get_ocr_result"}
    /\ \E in \in UploadOcrInputs :
          LET ocr_result == get_ocr_result(in)
              l == IF ocr_result.ok
                   THEN [loc.v EXCEPT !.ocr = Some(ocr_result),
                                      !.ocr_result_text = ocr_result.text,
                                      !.image_width = ocr_result.image_width,
                                      !.image_height = ocr_result.image_height,
                                      !.ocr_boxes = ocr_result.boxes,
                                      !.message = "File uploaded successfully",
                                      !.title = "OCR Result:",
                                      !.success = TRUE]
                   ELSE [loc.v EXCEPT !.ocr = Some(ocr_result)]
          IN  /\ loc' = Some(l)
              /\ resp' = Some(ResultResponse(l))
    /\ srvPc' = "done"
    /\ UNCHANGED <<ocrVars, cliVars, rtVars, argsAuth, authLayer, req, uploadDir, dirAtArrival>>

\* The request is over: its response is sent, or the task that served it
\* has panicked and the connection is closed without a response.
Finish ==
    /\ srvPc \in {"done", "panicked"}
    /\ srvPc' = "idle"
    /\ req' = None
    /\ loc' = None
    /\ resp' = None
    /\ log' = {}
    /\ dirAtArrival' = uploadDir
    /\ UNCHANGED <<ocrVars, cliVars, rtVars, argsAuth, authLayer, uploadDir>>

NextServer ==
    \/ StartServer
    \/ Arrive
    \/ AuthMiddleware
    \/ BodyLimit
    \/ RouteShowForm
    \/ RouteUpload
    \/ NextField
    \/ FieldBytes
    \/ CreateFile
    \/ WriteAll
    \/ Classify
    \/ Recognize
    \/ Finish

SpecServer == InitServer /\ [][NextServer]_vars

(***************************************************************************)
(* The command line: main without -s                                       *)
(***************************************************************************)

\* Longest list of input files.
MaxInputs == 2

\* The bytes '/' and '.'.
Slash == 47
Dot == 46

\* ".txt", and the current directory "/w" of the process.
TxtSuffix == <<46, 116, 120, 116>>
CurrentDir == <<47, 119>>

\* The input paths: "a.png", "d/a.png", "e/a.png" and "d/b.png".
InputPaths ==
    {<<97, 46, 112, 110, 103>>,
     <<100, 47, 97, 46, 112, 110, 103>>,
     <<101, 47, 97, 46, 112, 110, 103>>,
     <<100, 47, 98, 46, 112, 110, 103>>}

\* Path::file_name: the last component of a path.
PathFileName(path) ==
    SubSeq(path, LastIndex(path, Slash, Len(path)) + 1, Len(path))

\* Path::file_stem: the file name up to its last '.', or all of it when it
\* has no '.' or only starts with one; None when there is no file name.
PathFileStem(path) ==
    LET name == PathFileName(path)
        i == LastIndex(name, Dot, Len(name))
    IN  IF name = <<>> THEN None
        ELSE IF i <= 1 THEN Some(name)
        ELSE Some(SubSeq(name, 1, i - 1))

\* The directory part of a path, without the final '/'.
PathParent(path) == SubSeq(path, 1, LastIndex(path, Slash, Len(path)) - 1)

\* The absolute path the operating system opens for a path: a relative path
\* is taken from the current directory.
Resolve(path) ==
    IF path # <<>> /\ path[1] = Slash THEN path
    ELSE CurrentDir \o <<Slash>> \o path

\* Mutation of TextFileOf: Path::with_extension("txt"), the input path with
\* its extension replaced.
TextFileBesideInput(file, stem) ==
    LET i == LastIndex(file, Slash, Len(file))
    IN  SubSeq(file, 1, i) \o stem \o TxtSuffix

\* main, line 127: format!("{}{}", stem, ".txt").
TextFileOf(file, stem) == stem \o TxtSuffix

\* export_text_file(contents, path): fs::write creates or truncates the file
\* and writes the contents.  outcome "ok": written; "create": the file could
\* not be opened and nothing changes; "write": opened and truncated, then the
\* write failed.
export_text_file(fs, contents, path, outcome) ==
    LET target == Resolve(path)
        put(c) == [p \in DOMAIN fs \cup {target} |-> IF p = target THEN c ELSE fs[p]]
    IN  IF outcome = "ok" THEN [ok |-> TRUE, fs |-> put(contents)]
        ELSE IF outcome = "write" THEN [ok |-> FALSE, fs |-> put(<<>>)]
        ELSE [ok |-> FALSE, fs |-> fs]

\* What get_ocr_result meets for an input file of the command line.
CliOcrInputs ==
    {[readOk |-> FALSE, dims |-> None, results |-> None]}
    \cup {[readOk |-> TRUE, dims |-> Some(<<100, 200>>), results |-> r] :
            r \in {None} \cup
                  {Some(<<[candidate |-> Some(t), corners |-> SquareCorners]>>) :
                      t \in {"A", "B"}}}

InitCli ==
    /\ ocrPc = "off"
    /\ ocrIn = None
    /\ ocrOut = None
    /\ srvPc = "off"
    /\ argsAuth = <<>>
    /\ authLayer = None
    /\ req = None
    /\ loc = None
    /\ resp = None
    /\ log = {}
    /\ uploadDir = <<>>
    /\ dirAtArrival = <<>>
    /\ cliArgs \in [ocr : BOOLEAN, files : SeqsUpTo(InputPaths, MaxInputs)]
    /\ cliDone = <<>>
    /\ cliFs = <<>>
    /\ cliStdout = <<>>
    /\ workerThreads = 0
    /\ tasks = <<>>
    /\ workers = <<>>

\* main, lines 114-121: one turn of the loop of the default mode; the text of
\* an image is printed.
PrintFile ==
    /\ ~cliArgs.ocr
    /\ Len(cliDone) < Len(cliArgs.files)
    /\ LET file == cliArgs.files[Len(cliDone) + 1]
       IN  \E readOk \in BOOLEAN, data \in {JpegMagic, <<104, 105>>},
              in \in CliOcrInputs :
              LET image == is_image(readOk, data)
                  ocr_result == IF image THEN Some(get_ocr_result(in)) ELSE None
              IN  /\ cliStdout' = IF image /\ ocr_result.v.ok
                                  THEN Append(cliStdout, [text |-> ocr_result.v.text])
                                  ELSE cliStdout
                  /\ cliDone' = Append(cliDone, [file |-> file, image |-> image,
                                                 ocr |-> ocr_result,
                                                 export |-> "none"])
    /\ UNCHANGED <<ocrVars, srvVars, rtVars, cliArgs, cliFs>>

\* main, lines 122-135: one turn of the loop of the export mode (-o); the text
\* of an image is written to the text file, and the line "file --> text_file"
\* is printed when export_text_file returned Ok.
ExportFile ==
    /\ cliArgs.ocr
    /\ Len(cliDone) < Len(cliArgs.files)
    /\ LET file == cliArgs.files[Len(cliDone) + 1]
       IN  \E readOk \in BOOLEAN, data \in {JpegMagic, <<104, 105>>},
              in \in CliOcrInputs, outcome \in {"ok", "create", "write"} :
              LET image == is_image(readOk, data)
                  ocr_result == IF image THEN Some(get_ocr_result(in)) ELSE None
                  stem == PathFileStem(file)
                  exports == image /\ ocr_result.v.ok /\ stem.some
                  text_file == TextFileOf(file, stem.v)
                  written == export_text_file(cliFs, ocr_result.v.text, text_file, outcome)
              IN  /\ ~exports => outcome = "ok"
                  /\ cliFs' = IF exports THEN written.fs ELSE cliFs
                  /\ cliStdout' = IF exports /\ written.ok
                                  THEN Append(cliStdout, [src |-> file, dst |-> text_file])
                                  ELSE cliStdout
                  /\ cliDone' = Append(cliDone, [file |-> file, image |-> image,
                                                 ocr |-> ocr_result,
                                                 export |-> IF exports THEN outcome
                                                            ELSE "none"])
    /\ UNCHANGED <<ocrVars, srvVars, rtVars, cliArgs>>

NextCli ==
    \/ PrintFile
    \/ ExportFile

SpecCli == InitCli /\ [][NextCli]_vars

(***************************************************************************)
(* The runtime: connection tasks on the worker threads of tokio            *)
(*                                                                         *)
(* #[tokio::main] builds the multi-thread runtime, with as many worker     *)
(* threads as the machine has cores.  axum::serve accepts connections on   *)
(* the thread of main and spawns one task per connection; a worker thread  *)
(* polls one task at a time and gets it back only when the task awaits     *)
(* something that is not ready, ends, or panics.  upload_file awaits       *)
(* next_field() and field.bytes(); from there to its response it has no    *)
(* await, and it calls get_ocr_result on the worker thread that polls it.  *)
(***************************************************************************)

MaxWorkers == 2
MaxTasks == 3

\* What a request is to the scheduler: its route and, for an upload, what the
\* multipart body holds.
RtRequests ==
    {[route |-> "GET /", field |-> "none"]}
    \cup {[route |-> "POST /upload", field |-> f] :
            f \in {"none", "malformed", "text", "image"}}

FreeTask == [state |-> "free", at |-> "none", request |-> None]

\* The worker thread that polls task t, or 0.
WorkerOf(t) ==
    IF \E w \in DOMAIN workers : workers[w] = t
    THEN CHOOSE w \in DOMAIN workers : workers[w] = t
    ELSE 0

\* The worker thread w is inside get_ocr_result.
InRecognize(w) == workers[w] # 0 /\ tasks[workers[w]].state = "blocked"

\* The task on worker w leaves it, in state s.
Leave(w, t, s) ==
    /\ tasks' = [tasks EXCEPT ![t].state = s]
    /\ workers' = [workers EXCEPT ![w] = 0]

InitRuntime ==
    /\ ocrPc = "off"
    /\ ocrIn = None
    /\ ocrOut = None
    /\ srvPc = "off"
    /\ argsAuth = <<>>
    /\ authLayer = None
    /\ req = None
    /\ loc = None
    /\ resp = None
    /\ log = {}
    /\ uploadDir = <<>>
    /\ dirAtArrival = <<>>
    /\ cliArgs = [ocr |-> FALSE, files |-> <<>>]
    /\ cliDone = <<>>
    /\ cliFs = <<>>
    /\ cliStdout = <<>>
    /\ workerThreads \in 1 .. MaxWorkers
    /\ tasks = [t \in 1 .. MaxTasks |-> FreeTask]
    /\ workers = [w \in 1 .. workerThreads |-> 0]

\* axum::serve accepts a connection and spawns its task; the accept loop is
\* the future of main and does not run on a worker thread.
Accept(t) ==
    /\ tasks[t].state = "free"
    /\ \E r \in RtRequests :
          tasks' = [tasks EXCEPT ![t] =
                       [state |-> "ready",
                        at |-> IF r.route = "GET /" THEN "show_form" ELSE "next_field",
                        request |-> Some(r)]]
    /\ UNCHANGED <<ocrVars, srvVars, cliVars, workerThreads, workers>>

\* A parked worker thread takes a task that is ready to run.
Poll(w, t) ==
    /\ workers[w] = 0
    /\ tasks[t].state = "ready"
    /\ tasks' = [tasks EXCEPT ![t].state = "running"]
    /\ workers' = [workers EXCEPT ![w] = t]
    /\ UNCHANGED <<ocrVars, srvVars, cliVars, workerThreads>>

\* next_field().await or field.bytes().await finds the body not yet there:
\* the task is pending and the worker thread is free for another task.
Yield(w, t) ==
    /\ workers[w] = t
    /\ tasks[t].state = "running"
    /\ tasks[t].at \in {"next_field", "bytes"}
    /\ Leave(w, t, "waiting")
    /\ UNCHANGED <<ocrVars, srvVars, cliVars, workerThreads>>

\* The bytes a task waits for have come.
Wake(t) ==
    /\ tasks[t].state = "waiting"
    /\ tasks' = [tasks EXCEPT ![t].state = "ready"]
    /\ UNCHANGED <<ocrVars, srvVars, cliVars, workerThreads, workers>>

\* show_form: no await, the response is built at once.
RtShowForm(w, t) ==
    /\ workers[w] = t
    /\ tasks[t].state = "running"
    /\ tasks[t].at = "show_form"
    /\ Leave(w, t, "done")
    /\ UNCHANGED <<ocrVars, srvVars, cliVars, workerThreads>>

\* next_field().await.unwrap() is ready: no field ends in the "No file
\* received" response, a malformed body in a panic of the task.
RtNextField(w, t) ==
    /\ workers[w] = t
    /\ tasks[t].state = "running"
    /\ tasks[t].at = "next_field"
    /\ LET f == tasks[t].request.v.field
       IN  IF f = "none" THEN Leave(w, t, "done")
           ELSE IF f = "malformed" THEN Leave(w, t, "panicked")
           ELSE /\ tasks' = [tasks EXCEPT ![t].at = "bytes"]
                /\ UNCHANGED workers
    /\ UNCHANGED <<ocrVars, srvVars, cliVars, workerThreads>>

\* field.bytes().await is ready; the file is created and written and
\* is_image looks at it, all without an await: what is not an image is
\* answered, an image is about to be recognized.
RtPersist(w, t) ==
    /\ workers[w] = t
    /\ tasks[t].state = "running"
    /\ tasks[t].at = "bytes"
    /\ IF tasks[t].request.v.field = "image"
       THEN /\ tasks' = [tasks EXCEPT ![t].at = "recognize"]
            /\ UNCHANGED workers
       ELSE Leave(w, t, "done")
    /\ UNCHANGED <<ocrVars, srvVars, cliVars, workerThreads>>

\* upload_file calls get_ocr_result: a plain call in the async fn, so the
\* worker thread that polls the task is the thread that waits for the engine.
RecognizeCall(w, t) ==
    /\ workers[w] = t
    /\ tasks[t].state = "running"
    /\ tasks[t].at = "recognize"
    /\ tasks' = [tasks EXCEPT ![t].state = "blocked"]
    /\ UNCHANGED <<ocrVars, srvVars, cliVars, workerThreads, workers>>

\* get_ocr_result returns; the response is built without an await.
RecognizeReturn(w, t) ==
    /\ workers[w] = t
    /\ tasks[t].state = "blocked"
    /\ Leave(w, t, "done")
    /\ UNCHANGED <<ocrVars, srvVars, cliVars, workerThreads>>

\* The response is sent (or the panicked task is dropped) and the connection
\* is closed.
Close(t) ==
    /\ tasks[t].state \in {"done", "panicked"}
    /\ tasks' = [tasks EXCEPT ![t] = FreeTask]
    /\ UNCHANGED <<ocrVars, srvVars, cliVars, workerThreads, workers>>

NextRuntime ==
    \/ \E t \in DOMAIN tasks : Accept(t)
    \/ \E w \in DOMAIN workers, t \in DOMAIN tasks : Poll(w, t)
    \/ \E w \in DOMAIN workers, t \in DOMAIN tasks : Yield(w, t)
    \/ \E t \in DOMAIN tasks : Wake(t)
    \/ \E w \in DOMAIN workers, t \in DOMAIN tasks : RtShowForm(w, t)
    \/ \E w \in DOMAIN workers, t \in DOMAIN tasks : RtNextField(w, t)
    \/ \E w \in DOMAIN workers, t \in DOMAIN tasks : RtPersist(w, t)
    \/ \E w \in DOMAIN workers, t \in DOMAIN tasks : RecognizeCall(w, t)
    \/ \E w \in DOMAIN workers, t \in DOMAIN tasks : RecognizeReturn(w, t)
    \/ \E t \in DOMAIN tasks : Close(t)

SpecRuntime == InitRuntime /\ [][NextRuntime]_vars

(***************************************************************************)
(* Properties of get_ocr_result                                            *)
(***************************************************************************)

SetMin(S) == CHOOSE m \in S : \A n \in S : m <= n
SetMax(S) == CHOOSE m \in S : \A n \in S : n <= m

HasCandidate(obs) == obs.candidate.some

\* The observations of the call that carry a recognized text, in the engine's order.
TextObservations ==
    IF ocrIn.results.some THEN SelectSeq(ocrIn.results.v, HasCandidate) ELSE <<>>

OcrWidth == IF ocrIn.dims.some THEN ocrIn.dims.v[1] ELSE 0
OcrHeight == IF ocrIn.dims.some THEN ocrIn.dims.v[2] ELSE 0

\* The mapped x and y of the four corners of an observation, as sets.
MappedXs(obs) == {obs.corners[i][1] * OcrWidth : i \in 1 .. 4}
MappedYs(obs) == {(Den - obs.corners[i][2]) * OcrHeight : i \in 1 .. 4}

InUnitSquare(obs) ==
    \A i \in 1 .. 4 : /\ 0 <= obs.corners[i][1] /\ obs.corners[i][1] <= Den
                       /\ 0 <= obs.corners[i][2] /\ obs.corners[i][2] <= Den

\* C1: a returned OCRResult holds one box per observation with a recognized
\* text, in order; the box is the bounding box of the four corners mapped to
\* (nx * width, (1 - ny) * height): x and y the minima, w and h the maxima
\* minus the minima, so w >= 0 and h >= 0; the unit square on a 100 x 200 image
\* gives {x: 0, y: 0, w: 100, h: 200}.
C1_BoxIsMappedBoundingBox ==
    (ocrPc = "ret" /\ ocrOut.ok) =>
        /\ Len(ocrOut.boxes) = Len(TextObservations)
        /\ \A i \in 1 .. Len(TextObservations) :
              LET obs == TextObservations[i]
                  box == ocrOut.boxes[i]
              IN  /\ box.text = obs.candidate.v
                  /\ box.x = SetMin(MappedXs(obs))
                  /\ box.y = SetMin(MappedYs(obs))
                  /\ box.w = SetMax(MappedXs(obs)) - SetMin(MappedXs(obs))
                  /\ box.h = SetMax(MappedYs(obs)) - SetMin(MappedYs(obs))
                  /\ box.w >= 0
                  /\ box.h >= 0
                  /\ (obs.corners = SquareCorners /\ OcrWidth = 100 /\ OcrHeight = 200)
                        => /\ box.x = 0 /\ box.y = 0
                           /\ box.w = 100 * Den /\ box.h = 200 * Den

\* The unit square on a 100 x 200 image has been mapped.
C1_Witness ==
    /\ ocrPc = "ret"
    /\ ocrOut.ok
    /\ ocrIn.dims = Some(<<100, 200>>)
    /\ ocrIn.results = Some(<<[candidate |-> Some("A"), corners |-> SquareCorners]>>)
    /\ ocrOut.boxes = <<[text |-> "A", x |-> 0, y |-> 0,
                         w |-> 100 * Den, h |-> 200 * Den]>>

\* C2: on an image of non-zero width and height, the box of an observation
\* whose four corners lie in the unit square satisfies 0 <= x, 0 <= y,
\* x + w <= image_width and y + h <= image_height.
C2_BoxInsideImage ==
    (ocrPc = "ret" /\ ocrOut.ok /\ ocrOut.image_width # 0 /\ ocrOut.image_height # 0) =>
        \A i \in 1 .. Len(ocrOut.boxes) :
            (i <= Len(TextObservations) /\ InUnitSquare(TextObservations[i])) =>
                LET box == ocrOut.boxes[i]
                IN  /\ 0 <= box.x
                    /\ 0 <= box.y
                    /\ box.x + box.w <= ocrOut.image_width * Den
                    /\ box.y + box.h <= ocrOut.image_height * Den

\* A box of non-zero area away from the origin has been produced from corners
\* in the unit square.
C2_Witness ==
    /\ ocrPc = "ret"
    /\ ocrOut.ok
    /\ ocrOut.image_width # 0
    /\ ocrOut.image_height # 0
    /\ \E i \in 1 .. Len(ocrOut.boxes) :
          /\ i <= Len(TextObservations)
          /\ InUnitSquare(TextObservations[i])
          /\ ocrOut.boxes[i].x > 0
          /\ ocrOut.boxes[i].w > 0
          /\ ocrOut.boxes[i].y > 0
          /\ ocrOut.boxes[i].h > 0

(***************************************************************************)
(* Properties of the command line                                          *)
(***************************************************************************)

\* The text file "beside" an input: <stem>.txt in the input's own directory.
BesideInput(file) ==
    PathParent(Resolve(file)) \o <<Slash>> \o PathFileStem(file).v \o TxtSuffix

\* <stem>.txt in the current directory.
InCurrentDir(file) ==
    CurrentDir \o <<Slash>> \o PathFileStem(file).v \o TxtSuffix

\* The inputs gone through that were images and were read by get_ocr_result.
Recognized(d) == d.image /\ d.ocr.v.ok

ExportedOk(d) == d.export = "ok"

Ended == srvPc \in {"done", "panicked"}

\* upload_file found no field: it ended right after next_field.
NoFieldExit == srvPc = "done" /\ "next_field" \in log /\ "bytes" \notin log

\* upload_file read a first field whose payload is empty.
EmptyFieldRead == "create" \in log /\ loc.v.data = <<>>

\* The "No file received" response, in its two shapes.
NoFileResponses ==
    {JsonResponse(FALSE, "No file received", <<>>, 0, 0, <<>>),
     HtmlResponse("Error", "No file received", None)}

\* C3: a POST /upload that meets a request-scoped error ends in a JSON or HTML
\* response built by upload_file, never in a panic.
C3_ErrorsEndInResponse ==
    ("upload_file" \in log /\ Ended) =>
        /\ srvPc = "done"
        /\ resp.some
        /\ resp.v.kind \in {"json", "html"}

\* C4 as stated: no field, or a first field with an empty payload, gets "No
\* file received" in JSON and in HTML, and no file is persisted.
C4_EmptyFieldIsNoFile ==
    (srvPc = "done" /\ "next_field" \in log /\ (NoFieldExit \/ EmptyFieldRead)) =>
        /\ resp.v \in NoFileResponses
        /\ uploadDir = dirAtArrival

\* C4 amended: a body with no field gets "No file received" (JSON when the
\* request is an API request, HTML otherwise) and persists no file; a first
\* field with an empty payload never gets that response: it goes on to
\* File::create, and once the file is created an empty file is persisted and
\* the response is "The file type is not an image".
C4_NoFieldIsNoFile ==
    /\ NoFieldExit =>
          /\ resp.v \in NoFileResponses
          /\ (resp.v.kind = "json") <=> loc.v.is_api_request
          /\ uploadDir = dirAtArrival
    /\ (srvPc = "done" /\ EmptyFieldRead) =>
          /\ resp.v \notin NoFileResponses
          /\ IF "write" \in log
             THEN /\ Len(uploadDir) = Len(dirAtArrival) + 1
                  /\ uploadDir[loc.v.save_path.v].content = <<>>
                  /\ resp.v \in
                       {JsonResponse(FALSE, "The file type is not an image",
                                     <<>>, 0, 0, <<>>),
                        HtmlResponse("OCR Result", "The file type is not an image",
                                     Some(<<>>))}
             ELSE /\ uploadDir = dirAtArrival
                  /\ resp.v \in
                       {JsonResponse(FALSE, "Unable to create file", <<>>, 0, 0, <<>>),
                        HtmlResponse("Error", "Unable to create file.", None)}

\* Both cases of C4 have happened: a JSON request ended with no field, or an
\* empty first field was persisted and answered.
C4_Witness ==
    /\ srvPc = "done"
    /\ EmptyFieldRead
    /\ "write" \in log
    /\ resp.v.kind = "json"
    /\ uploadDir # dirAtArrival

\* The Authorization header a client sends for a user name and a password.
BasicHeaderFor(username, password) ==
    Some(BasicPrefix \o B64Encode(username \o <<Colon>> \o password))

\* C5: with the auth layer installed, a request gets to next.run if and only
\* if its Authorization header is "Basic " and the base64 of user:pass for the
\* configured pair; every other request ends with the one 401 response, which
\* carries WWW-Authenticate: Basic realm="MacOCR Server", and sees no later
\* stage.
C5_AuthGate ==
    (authLayer.some /\ req.some /\ srvPc # "auth") =>
        IF req.v.authorization =
              BasicHeaderFor(authLayer.v.username, authLayer.v.password)
        THEN /\ "next.run" \in log
             /\ resp # Some(UnauthorizedResponse)
        ELSE /\ srvPc = "done"
             /\ log = {"auth"}
             /\ loc = None
             /\ uploadDir = dirAtArrival
             /\ resp.some
             /\ resp.v = UnauthorizedResponse
             /\ resp.v.status = 401
             /\ resp.v.www_authenticate = [scheme |-> "Basic", realm |-> "MacOCR Server"]

\* alice:secret is configured, and an upload with the right header has been
\* served by upload_file.
C5_Witness ==
    /\ authLayer = Some([username |-> AliceOnly,
                         password |-> <<115, 101, 99, 114, 101, 116>>])
    /\ srvPc = "done"
    /\ req.v.authorization = Some(BasicPrefix \o B64Encode(AliceSecret))
    /\ "upload_file" \in log
    /\ resp.v.status = 200

\* The request in flight has a body of more than 100 MiB.
Oversized == req.some /\ req.v.body.bodySize > BodyLimitBytes

\* The auth layer is installed and turns the request in flight down.
TurnedDownByAuth ==
    /\ authLayer.some
    /\ req.v.authorization #
          BasicHeaderFor(authLayer.v.username, authLayer.v.password)

\* C6 as stated: a request with a body over 100 MiB is rejected by the size
\* check before upload_file runs and before any file is created, with or
\* without the auth layer and whatever its credentials.
C6_OversizedRejectedBySizeCheck ==
    (Ended /\ Oversized) =>
        /\ resp = Some(PayloadTooLargeResponse)
        /\ "upload_file" \notin log
        /\ uploadDir = dirAtArrival

\* C6 amended: a request that declares a Content-Length over 100 MiB never
\* gets to upload_file and creates no file; the auth layer, when installed,
\* is checked first, so the request ends with 401 and without the size check
\* when its credentials are missing or wrong, and with 413 from the size check
\* otherwise.
C6_DeclaredOversizeRejected ==
    (Ended /\ Oversized /\ ~req.v.body.chunked) =>
        /\ srvPc = "done"
        /\ "upload_file" \notin log
        /\ uploadDir = dirAtArrival
        /\ IF TurnedDownByAuth
           THEN resp = Some(UnauthorizedResponse) /\ "limit" \notin log
           ELSE resp = Some(PayloadTooLargeResponse) /\ resp.v.status = 413

\* An oversized request with the right credentials was rejected by the size
\* check behind the auth layer.
C6_Witness ==
    /\ authLayer.some
    /\ srvPc = "done"
    /\ Oversized
    /\ ~req.v.body.chunked
    /\ "next.run" \in log
    /\ resp = Some(PayloadTooLargeResponse)

\* Whether a response of upload_file reports success: the success field of
\* the JSON body, the "OCR Result:" heading of the HTML page.
ReportsSuccess(r) ==
    IF r.kind = "json" THEN r.success ELSE r.h1 = "OCR Result:"

\* C7: once the first field is persisted, the response reports success
\* (message "File uploaded successfully") if and only if is_image accepted the
\* saved file and get_ocr_result returned Ok; a saved file that is not an
\* image is answered normally with success=false, "The file type is not an
\* image", no text, zero dimensions and no boxes, and get_ocr_result is not
\* called for it.
C7_SuccessIffImageAndOcrOk ==
    (srvPc = "done" /\ "is_image" \in log) =>
        LET saved == uploadDir[loc.v.save_path.v].content
            r == resp.v
        IN  /\ saved = loc.v.data
            /\ ReportsSuccess(r) <=>
                  (loc.v.classified = Some(TRUE) /\ loc.v.ocr.some /\ loc.v.ocr.v.ok)
            /\ ReportsSuccess(r) => InferIsImage(saved)
            /\ (r.kind = "json" /\ r.success) =>
                  r.message = "File uploaded successfully"
            /\ ~InferIsImage(saved) =>
                  /\ "get_ocr_result" \notin log
                  /\ r.status = 200
                  /\ r \in {JsonResponse(FALSE, "The file type is not an image",
                                         <<>>, 0, 0, <<>>),
                            HtmlResponse("OCR Result", "The file type is not an image",
                                         Some(<<>>))}

\* A saved text file was answered with success=false in JSON.
C7_Witness ==
    /\ srvPc = "done"
    /\ "is_image" \in log
    /\ uploadDir[loc.v.save_path.v].content = <<104, 105>>
    /\ resp.v.kind = "json"
    /\ ~resp.v.success

\* Whether the Accept header is readable text that contains
\* "application/json".
WantsJson(accept) ==
    /\ accept.some
    /\ \A i \in 1 .. Len(accept.v) :
          accept.v[i] = 9 \/ (accept.v[i] >= 32 /\ accept.v[i] <= 126)
    /\ \E i \in 1 .. Len(accept.v) :
          /\ i + Len(ApplicationJson) - 1 <= Len(accept.v)
          /\ \A j \in 1 .. Len(ApplicationJson) :
                accept.v[i + j - 1] = ApplicationJson[j]

\* The terminal outcomes of upload_file, by the last stage it ran.
UploadOutcome ==
    IF "get_ocr_result" \in log THEN "recognized"
    ELSE IF "is_image" \in log THEN "not an image"
    ELSE IF "write" \in log THEN "write failure"
    ELSE IF "create" \in log THEN "create failure"
    ELSE "no field"

\* C8: whatever the outcome of upload_file, its response is the JSON body
\* {success, message, ocr_result, image_width, image_height, ocr_boxes} if and
\* only if the Accept header is readable text containing "application/json",
\* and an HTML page otherwise; the shape is decided when upload_file starts
\* and stays the same up to the response.
C8_ShapeFollowsAccept ==
    ("upload_file" \in log /\ srvPc # "panicked") =>
        /\ loc.v.is_api_request <=> WantsJson(req.v.accept)
        /\ srvPc = "done" =>
              /\ resp.some
              /\ resp.v.kind = IF WantsJson(req.v.accept) THEN "json" ELSE "html"
              /\ resp.v.kind = "json" =>
                    DOMAIN resp.v = {"kind", "status", "success", "message",
                                     "ocr_result", "image_width", "image_height",
                                     "ocr_boxes"}

\* A request whose Accept header names JSON after HTML got a JSON body for a
\* recognized image.
C8_Witness ==
    /\ srvPc = "done"
    /\ UploadOutcome = "recognized"
    /\ req.v.accept = Some(HtmlThenJson)
    /\ resp.v.kind = "json"
    /\ resp.v.success

\* The number of ':' in a string.
Colons(s) == Cardinality({i \in 1 .. Len(s) : s[i] = Colon})

\* nonempty:nonempty with no ':' inside either half.
WellFormedAuth(s) ==
    /\ Colons(s) = 1
    /\ s[1] # Colon
    /\ s[Len(s)] # Colon

\* C10: the auth layer is installed at startup if and only if the -a/--auth
\* string is non-empty and nonempty:nonempty with a single ':' ("alice:secret"
\* is, "", "alice" and "alice:se:cret" are not); with any other string the
\* server starts and no request meets the auth check; when installed, the
\* user name and the password are the two halves of the string.
C10_AuthLayerIffWellFormed ==
    srvPc # "boot" =>
        /\ srvPc # "crashed"
        /\ authLayer.some <=> (argsAuth # <<>> /\ WellFormedAuth(argsAuth))
        /\ authLayer.some =>
              /\ authLayer.v.username \o <<Colon>> \o authLayer.v.password = argsAuth
              /\ authLayer.v.username # <<>>
              /\ authLayer.v.password # <<>>
              /\ Colons(authLayer.v.username) = 0
              /\ Colons(authLayer.v.password) = 0
        /\ ~authLayer.some =>
              /\ "auth" \notin log
              /\ resp # Some(UnauthorizedResponse)
        /\ argsAuth = AliceSecret => authLayer.some
        /\ argsAuth \in {<<>>, AliceOnly, AliceSeCret} => ~authLayer.some

\* The server was started with a malformed non-empty string and has served an
\* upload that carried no credentials.
C10_Witness ==
    /\ argsAuth = AliceSeCret
    /\ authLayer = None
    /\ srvPc = "done"
    /\ req.v.authorization = None
    /\ "upload_file" \in log
    /\ resp.v.status = 200

(***************************************************************************)
(* Properties of the runtime                                               *)
(***************************************************************************)

\* Task t has a request that is ready to run and is on no worker thread.
AwaitsWorker(t) == tasks[t].state = "ready" /\ WorkerOf(t) = 0

\* No worker thread can take a task before some get_ocr_result returns.
AllWorkersInRecognize == \A w \in DOMAIN workers : InRecognize(w)

\* C11: recognition is offloaded, so however many requests are in the
\* Recognize step, a request that has arrived and is ready to run (GET /, or
\* an upload that fails at next_field) finds a worker thread that is not
\* waiting for a get_ocr_result call to return.
C11_RecognizeDoesNotStall ==
    \A t \in DOMAIN tasks :
        (AwaitsWorker(t) /\ \E w \in DOMAIN workers : InRecognize(w)) =>
            ~AllWorkersInRecognize

\* A GET / is ready to run while every worker thread is inside
\* get_ocr_result: it is served only after one of the calls returns.
C11_Stalled ==
    /\ AllWorkersInRecognize
    /\ \E t \in DOMAIN tasks :
          AwaitsWorker(t) /\ tasks[t].request.v.route = "GET /"

====
